---- MODULE Spec2Model ----
(***************************************************************************)
(* Model of the two data pipelines of the repository:                      *)
(*   src/src/merge_parquet.py  (trip pipeline: merge + clean_data)         *)
(*   src/src/process_data.py   (tracking pipeline: load, process, save)    *)
(*                                                                         *)
(* A cell is <<>> when it is null (NaN / NaT / None) and <<v>> when it     *)
(* holds the value v.  A table of the tracking pipeline is a record        *)
(* [cols, rows]: the set of column names it has and the sequence of its    *)
(* rows, each a function from cols to cells.  A table of the trip pipeline *)
(* always has its four columns; a row of merged_df carries its index label *)
(* because clean_data keeps the labels of the rows it keeps.               *)
(***************************************************************************)
EXTENDS Integers, Sequences, FiniteSets, TLC

VARIABLES
    pc,            \* position of the running program
    files,         \* the files the glob pattern matches, in enumeration order
    dfs,           \* the tables read so far (dfs / df_list)
    merged_df,     \* trip pipeline: merged_df
    df,            \* tracking pipeline: the table load_data returned
    df_processed,  \* tracking pipeline: df_processed inside process_data
    fs,            \* paths the run has created or written
    console,       \* messages printed so far
    exc            \* the exception that is propagating or has escaped, or <<>>

vars == <<pc, files, dfs, merged_df, df, df_processed, fs, console, exc>>

----------------------------------------------------------------------------
(* Bounds of the model *)

\* most rows a trip input holds over all its files
MaxTripRows == 2

\* most rows of a tracking input whose records differ in their categorical
\* values, in their date and time, or in the columns they have
MaxRows == 3

\* most rows with varied coordinates of a tracking input
MaxGeoRows == 2

----------------------------------------------------------------------------
(* Cells and tables *)

NaN == <<>>

isna(c) == c = NaN

notna(c) == c # NaN

EmptyTable == [cols |-> {}, rows |-> <<>>]

Range(s) == {s[i] : i \in DOMAIN s}

\* the consecutive pieces of sequence t cut after the positions in cuts
RECURSIVE Pieces(_, _, _)
Pieces(t, cuts, from) ==
    IF from > Len(t) THEN <<>>
    ELSE LET ends == {c \in cuts : c >= from} \cup {Len(t)}
             to == CHOOSE e \in ends : \A f \in ends : e <= f
         IN  <<SubSeq(t, from, to)>> \o Pieces(t, cuts, to + 1)

\* every way of storing the rows of t in one or more non-empty files
FilesOf(t) ==
    IF Len(t) = 0 THEN {<<>>, << <<>> >>}
    ELSE {Pieces(t, cuts, 1) : cuts \in SUBSET (1 .. Len(t) - 1)}

RECURSIVE Flatten(_)
Flatten(ss) == IF ss = <<>> THEN <<>> ELSE Head(ss) \o Flatten(Tail(ss))

----------------------------------------------------------------------------
(* Trip pipeline: src/src/merge_parquet.py *)

\* the rows a trip file can hold
TripRow ==
    [pickup_datetime  : {NaN, <<"2024-01-05 10:00">>},
     dropoff_datetime : {NaN, <<"2024-01-05 10:30">>},
     fare_amount      : {NaN, <<-5>>, <<0>>, <<12>>},
     trip_distance    : {<<-1>>, <<0>>, <<3>>}]

TripTables == UNION {[1 .. n -> TripRow] : n \in 0 .. MaxTripRows}

output_dir == "data/processed"

merged_path == "data/processed/yellow_tripdata_2024_merged.parquet"

\* pd.concat(dfs, ignore_index=True): the rows in file order, indexed from 0
concat_rows(tables) ==
    LET all == Flatten(tables)
    IN  [i \in 1 .. Len(all) |-> [index |-> i - 1, row |-> all[i]]]

\* df.dropna(subset=cols): keep the rows with no null in cols
dropna(rows, subset) ==
    SelectSeq(rows, LAMBDA r : \A c \in subset : notna(r.row[c]))

\* a filter that lets a zero amount through
gt0_nonneg(c) == notna(c) /\ c[1] >= 0

\* df[df[col] > 0]: a comparison with NaN is False
gt0(c) == notna(c) /\ c[1] > 0

filter_gt0(rows, col) == SelectSeq(rows, LAMBDA r : gt0(r.row[col]))

clean_data(rows) ==
    LET d1 == dropna(rows, {"pickup_datetime", "dropoff_datetime"})
        d2 == filter_gt0(d1, "fare_amount")
        d3 == filter_gt0(d2, "trip_distance")
    IN  d3

InitTrip ==
    /\ pc = "makedirs"
    /\ \E t \in TripTables : files \in FilesOf(t)
    /\ dfs = <<>>
    /\ merged_df = <<>>
    /\ df = EmptyTable
    /\ df_processed = EmptyTable
    /\ fs = {}
    /\ console = <<>>
    /\ exc = <<>>

\* an uncaught exception ends the script
Raise(e) ==
    /\ pc' = "raised"
    /\ exc' = <<e>>

\* line 7: os.makedirs(output_dir, exist_ok=True)
TripMakeDirs ==
    /\ pc = "makedirs"
    /\ \/ /\ fs' = fs \cup {output_dir}
          /\ pc' = "glob"
          /\ UNCHANGED exc
       \/ /\ Raise("OSError")
          /\ UNCHANGED fs
    /\ UNCHANGED <<files, dfs, merged_df, df, df_processed, console>>

\* line 9: all_files = glob.glob(...); line 11: dfs = []
TripGlob ==
    /\ pc = "glob"
    /\ dfs' = <<>>
    /\ pc' = "read"
    /\ UNCHANGED <<files, merged_df, df, df_processed, fs, console, exc>>

\* lines 12-14: one iteration of the loop over all_files
TripReadParquet ==
    /\ pc = "read"
    /\ Len(dfs) < Len(files)
    /\ \/ /\ dfs' = Append(dfs, files[Len(dfs) + 1])
          /\ UNCHANGED <<pc, exc>>
       \/ /\ Raise("OSError")
          /\ UNCHANGED dfs
    /\ UNCHANGED <<files, merged_df, df, df_processed, fs, console>>

\* line 16: pd.concat raises ValueError("No objects to concatenate") on []
TripConcat ==
    /\ pc = "read"
    /\ Len(dfs) = Len(files)
    /\ IF dfs = <<>>
       THEN /\ Raise("ValueError")
            /\ UNCHANGED merged_df
       ELSE /\ merged_df' = concat_rows(dfs)
            /\ pc' = "clean"
            /\ UNCHANGED exc
    /\ UNCHANGED <<files, dfs, df, df_processed, fs, console>>

\* line 18: merged_df = clean_data(merged_df)
TripClean ==
    /\ pc = "clean"
    /\ merged_df' = clean_data(merged_df)
    /\ pc' = "write"
    /\ UNCHANGED <<files, dfs, df, df_processed, fs, console, exc>>

\* lines 20-21: to_parquet, then the confirmation message
TripWrite ==
    /\ pc = "write"
    /\ \/ /\ fs' = fs \cup {merged_path}
          /\ console' = Append(console, "Merged and cleaned data saved")
          /\ pc' = "done"
          /\ UNCHANGED exc
       \/ /\ Raise("OSError")
          /\ UNCHANGED <<fs, console>>
    /\ UNCHANGED <<files, dfs, merged_df, df, df_processed>>

NextTrip ==
    \/ TripMakeDirs
    \/ TripGlob
    \/ TripReadParquet
    \/ TripConcat
    \/ TripClean
    \/ TripWrite

SpecTrip == InitTrip /\ [][NextTrip]_vars

----------------------------------------------------------------------------
(* Tracking pipeline: src/src/process_data.py *)

categorical_cols == <<"Sex", "Age", "Breed Stage", "ArgosQuality">>

position_cols == <<"Latitude", "Longitude">>

AllCols == {"DateGMT", "TimeGMT", "Latitude", "Longitude"} \cup Range(categorical_cols)

processed_dir == "./data/processed"

parquet_path == "./data/processed/penguin_tracking_processed.parquet"

csv_path == "./data/processed/penguin_tracking_processed.csv"

\* a complete, well-formed tracking record as read from a CSV file
GoodRow ==
    [c \in AllCols |->
        CASE c = "DateGMT" -> <<"15/01/2024">>
          [] c = "TimeGMT" -> <<"12:30:45">>
          [] c = "Latitude" -> <<"-62">>
          [] c = "Longitude" -> <<"-58">>
          [] c = "Sex" -> <<"female">>
          [] c = "Age" -> <<"adult">>
          [] c = "Breed Stage" -> <<"incubation">>
          [] c = "ArgosQuality" -> <<"A">>]

\* row r with the cells of the columns in DOMAIN over replaced
With(r, over) == [c \in DOMAIN r |-> IF c \in DOMAIN over THEN over[c] ELSE r[c]]

\* table t without the columns in absent
Without(t, absent) ==
    [cols |-> t.cols \ absent,
     rows |-> [i \in DOMAIN t.rows |-> [c \in t.cols \ absent |-> t.rows[i][c]]]]

TableOf(rows) == [cols |-> AllCols, rows |-> rows]

\* pd.concat(df_list, ignore_index=True): the union of the columns, the rows
\* in file order, a row null in the columns its file does not have
concat(tables) ==
    LET cols == UNION {tables[i].cols : i \in DOMAIN tables}
        widen(t) == [i \in DOMAIN t.rows |->
                        [c \in cols |-> IF c \in t.cols THEN t.rows[i][c] ELSE NaN]]
        RECURSIVE all(_)
        all(k) == IF k > Len(tables) THEN <<>> ELSE widen(tables[k]) \o all(k + 1)
    IN  [cols |-> cols, rows |-> all(1)]

\* an exception inside the try block of main is caught by its handler
RaiseInMain(e) ==
    /\ pc' = "except"
    /\ exc' = <<e>>

\* line 135: print("Starte Datenverarbeitung"), then load_data is entered;
\* line 16: all_files = glob.glob(...)
MainStart ==
    /\ pc = "start"
    /\ console' = Append(console, "Starte Datenverarbeitung")
    /\ pc' = "glob"
    /\ UNCHANGED <<files, dfs, merged_df, df, df_processed, fs, exc>>

\* lines 18-22: no file matched raises FileNotFoundError; df_list = []
LoadGlob ==
    /\ pc = "glob"
    /\ IF files = <<>>
       THEN /\ RaiseInMain("FileNotFoundError")
            /\ UNCHANGED dfs
       ELSE /\ dfs' = <<>>
            /\ pc' = "read"
            /\ UNCHANGED exc
    /\ UNCHANGED <<files, merged_df, df, df_processed, fs, console>>

\* lines 23-25: one iteration of the loop over all_files
LoadReadCsv ==
    /\ pc = "read"
    /\ Len(dfs) < Len(files)
    /\ \/ /\ dfs' = Append(dfs, files[Len(dfs) + 1])
          /\ UNCHANGED <<pc, exc>>
       \/ /\ RaiseInMain("OSError")
          /\ UNCHANGED dfs
    /\ UNCHANGED <<files, merged_df, df, df_processed, fs, console>>

\* lines 27-30: concatenate, report the shape, return to main (line 139)
LoadConcat ==
    /\ pc = "read"
    /\ Len(dfs) = Len(files)
    /\ df' = concat(dfs)
    /\ console' = Append(console, "Daten geladen")
    /\ pc' = "process"
    /\ UNCHANGED <<files, dfs, merged_df, df_processed, fs, exc>>

\* line 121: os.makedirs(output_path, exist_ok=True)
SaveMakeDirs ==
    /\ pc = "save"
    /\ \/ /\ fs' = fs \cup {processed_dir}
          /\ pc' = "to_parquet"
          /\ UNCHANGED exc
       \/ /\ RaiseInMain("OSError")
          /\ UNCHANGED fs
    /\ UNCHANGED <<files, dfs, merged_df, df, df_processed, console>>

\* lines 124-126: df.to_parquet and its message
SaveParquet ==
    /\ pc = "to_parquet"
    /\ \/ /\ fs' = fs \cup {parquet_path}
          /\ console' = Append(console, "Daten als Parquet gespeichert")
          /\ pc' = "to_csv"
          /\ UNCHANGED exc
       \/ /\ RaiseInMain("OSError")
          /\ UNCHANGED <<fs, console>>
    /\ UNCHANGED <<files, dfs, merged_df, df, df_processed>>

\* lines 129-131: df.to_csv and its message; save_data returns
SaveCsv ==
    /\ pc = "to_csv"
    /\ \/ /\ fs' = fs \cup {csv_path}
          /\ console' = Append(console, "Daten als CSV gespeichert")
          /\ pc' = "saved"
          /\ UNCHANGED exc
       \/ /\ RaiseInMain("OSError")
          /\ UNCHANGED <<fs, console>>
    /\ UNCHANGED <<files, dfs, merged_df, df, df_processed>>

\* line 147: the success message
MainSuccess ==
    /\ pc = "saved"
    /\ console' = Append(console, "Datenverarbeitung erfolgreich abgeschlossen")
    /\ pc' = "done"
    /\ UNCHANGED <<files, dfs, merged_df, df, df_processed, fs, exc>>

\* a handler that reports the error and returns
MainExcept_swallow ==
    /\ pc = "except"
    /\ console' = Append(console, "Fehler bei der Datenverarbeitung")
    /\ pc' = "done"
    /\ UNCHANGED <<files, dfs, merged_df, df, df_processed, fs, exc>>

\* lines 149-151: the handler reports the error and re-raises it
MainExcept ==
    /\ pc = "except"
    /\ console' = Append(console, "Fehler bei der Datenverarbeitung")
    /\ pc' = "raised"
    /\ UNCHANGED <<files, dfs, merged_df, df, df_processed, fs, exc>>

----------------------------------------------------------------------------
(* process_data, lines 32-116, one action per numbered step of the function *)

\* df[col] = cells: the column is replaced, or added if the table lacks it
SetCol(t, col, cells) ==
    [cols |-> t.cols \cup {col},
     rows |-> [i \in DOMAIN t.rows |->
                  [c \in t.cols \cup {col} |->
                      IF c = col THEN cells[i] ELSE t.rows[i][c]]]]

Col(t, col) == [i \in DOMAIN t.rows |-> t.rows[i][col]]

any_isna(t, col) == \E i \in DOMAIN t.rows : isna(t.rows[i][col])

\* pd.to_datetime(text, format='%d/%m/%Y', errors='coerce') on the date texts
\* of the model: a text that is no calendar date in that format gives NaT
to_datetime(c) ==
    IF isna(c) THEN NaN
    ELSE CASE c[1] = "15/01/2024" -> <<[year |-> 2024, month |-> 1, day |-> 15]>>
           [] c[1] = "20/07/2024" -> <<[year |-> 2024, month |-> 7, day |-> 20]>>
           [] c[1] = "31/02/2024" -> NaN

\* text.split(':') on the time texts of the model
str_split(text) ==
    CASE text = "12:30:45" -> <<"12", "30", "45">>
      [] text = "12:30" -> <<"12", "30">>
      [] text = "25:00:00" -> <<"25", "00", "00">>
      [] text = "ab:cd:ef" -> <<"ab", "cd", "ef">>

\* float(text): <<>> stands for the ValueError of a text that is no number
float_of(text) ==
    CASE text = "00" -> <<0>>
      [] text = "12" -> <<12>>
      [] text = "25" -> <<25>>
      [] text = "30" -> <<30>>
      [] text = "45" -> <<45>>
      [] OTHER -> <<>>

Max(S) == CHOOSE m \in S : \A x \in S : x <= m

\* Series.str.split(':', expand=True): one column per part of the longest
\* split, a null row stays null in every column
split_expand(col) ==
    LET parts(i) == IF isna(col[i]) THEN <<>> ELSE str_split(col[i][1])
        width == Max({0} \cup {Len(parts(i)) : i \in DOMAIN col})
    IN  [width |-> width,
         cells |-> [i \in DOMAIN col |->
                      [k \in 1 .. width |->
                          IF k <= Len(parts(i)) THEN <<parts(i)[k]>> ELSE NaN]]]

\* pd.Timestamp(year=, month=, day=, hour=, minute=, second=) accepts only
\* a time of day that exists
valid_time(h, m, sec) == h \in 0 .. 23 /\ m \in 0 .. 59 /\ sec \in 0 .. 59

\* lines 52-54: int(row[k]) if not pd.isna(row[k]) else 0
or_zero(c) == IF isna(c) THEN 0 ELSE c[1]

\* lines 35-39: the copy, and DateGMT parsed
ProcParseDate ==
    /\ pc = "process"
    /\ IF "DateGMT" \notin df.cols
       THEN /\ RaiseInMain("KeyError")
            /\ df_processed' = df
       ELSE /\ df_processed' = SetCol(df, "DateGMT",
                                      [i \in DOMAIN df.rows |->
                                          to_datetime(df.rows[i]["DateGMT"])])
            /\ pc' = "timestamp"
            /\ UNCHANGED exc
    /\ UNCHANGED <<files, dfs, merged_df, df, fs, console>>

\* lines 42-60: hour, minute, second from TimeGMT, and the Timestamp column
ProcTimestamp ==
    /\ pc = "timestamp"
    /\ IF "TimeGMT" \notin df_processed.cols
       THEN /\ pc' = "to_numeric"
            /\ UNCHANGED <<df_processed, exc>>
       ELSE LET t == df_processed
                time == Col(t, "TimeGMT")
                sp == split_expand(time)
                hms(i) == [k \in 1 .. sp.width |->
                              IF isna(sp.cells[i][k]) THEN NaN
                              ELSE float_of(sp.cells[i][k][1])]
                \* .str needs a column of strings
                no_str == t.rows # <<>> /\ \A i \in DOMAIN time : isna(time[i])
                \* astype(float) on a text that is no number
                bad_float == \E i \in DOMAIN time : \E k \in 1 .. sp.width :
                                 notna(sp.cells[i][k]) /\ isna(hms(i)[k])
                \* three columns are assigned from the frame of the split
                bad_width == sp.width # 3
                bad_time == \E i \in DOMAIN time :
                                /\ notna(t.rows[i]["DateGMT"])
                                /\ ~valid_time(or_zero(hms(i)[1]), or_zero(hms(i)[2]),
                                               or_zero(hms(i)[3]))
                stamp(i) == IF isna(t.rows[i]["DateGMT"]) THEN NaN
                            ELSE LET d == t.rows[i]["DateGMT"][1]
                                 IN  <<[year |-> d.year, month |-> d.month, day |-> d.day,
                                        hour |-> or_zero(hms(i)[1]),
                                        minute |-> or_zero(hms(i)[2]),
                                        second |-> or_zero(hms(i)[3])]>>
            IN  IF no_str
                THEN /\ RaiseInMain("AttributeError")
                     /\ UNCHANGED df_processed
                ELSE IF bad_float \/ bad_width \/ bad_time
                THEN /\ RaiseInMain("ValueError")
                     /\ UNCHANGED df_processed
                ELSE /\ df_processed' = SetCol(t, "Timestamp", [i \in DOMAIN t.rows |-> stamp(i)])
                     /\ pc' = "to_numeric"
                     /\ UNCHANGED exc
    /\ UNCHANGED <<files, dfs, merged_df, df, fs, console>>

\* n_neighbors of the KNNImputer
n_neighbors == 5

RECURSIVE Lcm1To(_)
Lcm1To(n) ==
    IF n <= 1 THEN 1
    ELSE LET l == Lcm1To(n - 1)
             m == CHOOSE k \in 1 .. n : (l * k) % n = 0 /\ \A j \in 1 .. k - 1 : (l * j) % n # 0
         IN  l * m

\* A coordinate is held as a whole number of 1/Unit degrees, so that the mean
\* of any number of the table's coordinates is exact
Unit == Lcm1To(n_neighbors + MaxGeoRows)

\* pd.to_numeric(text, errors='coerce') on the coordinate texts of the model:
\* a text that is no number gives NaN
to_numeric(c) ==
    IF isna(c) THEN NaN
    ELSE CASE c[1] = "-64" -> <<(-64) * Unit>>
           [] c[1] = "-62" -> <<(-62) * Unit>>
           [] c[1] = "-61" -> <<(-61) * Unit>>
           [] c[1] = "-60" -> <<(-60) * Unit>>
           [] c[1] = "-58" -> <<(-58) * Unit>>
           [] c[1] = "-57" -> <<(-57) * Unit>>
           [] c[1] = "-56" -> <<(-56) * Unit>>
           [] c[1] = "n/a" -> NaN

\* lines 63-65: Latitude and Longitude to numbers, where the column exists
ProcToNumeric ==
    /\ pc = "to_numeric"
    /\ LET conv(t, col) == IF col \in t.cols
                           THEN SetCol(t, col, [i \in DOMAIN t.rows |-> to_numeric(t.rows[i][col])])
                           ELSE t
       IN  df_processed' = conv(conv(df_processed, "Latitude"), "Longitude")
    /\ pc' = "mode_fill"
    /\ UNCHANGED <<files, dfs, merged_df, df, fs, console, exc>>

\* the category values of the model in the order sorting puts them
SortOrder == <<"A", "B", "adult", "chick", "female", "incubation", "male">>

sort_key(v) == CHOOSE k \in DOMAIN SortOrder : SortOrder[k] = v

count(col, v) == Cardinality({i \in DOMAIN col : col[i] = <<v>>})

values(col) == {col[i][1] : i \in {j \in DOMAIN col : notna(col[j])}}

\* Series.mode(): the most frequent non-null values, sorted
modes(col) == {v \in values(col) : \A w \in values(col) : count(col, w) <= count(col, v)}

\* a tie broken by the row order instead of the sort order
mode0_first_seen(col) ==
    LET first(v) == CHOOSE i \in DOMAIN col : col[i] = <<v>> /\ \A j \in 1 .. i - 1 : col[j] # <<v>>
    IN  CHOOSE v \in modes(col) : \A w \in modes(col) : first(v) <= first(w)

\* Series.mode()[0]
mode0(col) == CHOOSE v \in modes(col) : \A w \in modes(col) : sort_key(v) <= sort_key(w)

\* a fill that overwrites the whole column
fillna_all(col, v) == [i \in DOMAIN col |-> <<v>>]

\* Series.fillna(v)
fillna(col, v) == [i \in DOMAIN col |-> IF isna(col[i]) THEN <<v>> ELSE col[i]]

\* a loop that fills nothing
needs_fill_never(t, col) == FALSE

\* line 71: the columns the loop of lines 70-72 fills
needs_fill(t, col) == col \in t.cols /\ any_isna(t, col)

\* lines 70-72, the loop over categorical_cols from position k on
RECURSIVE mode_fill(_, _)
mode_fill(t, k) ==
    IF k > Len(categorical_cols) THEN t
    ELSE LET col == categorical_cols[k]
         IN  IF needs_fill(t, col)
             THEN mode_fill(SetCol(t, col, fillna(Col(t, col), mode0(Col(t, col)))), k + 1)
             ELSE mode_fill(t, k + 1)

\* mode()[0] of a column with no value is a KeyError
mode_fill_raises(t) ==
    \E k \in DOMAIN categorical_cols :
        needs_fill(t, categorical_cols[k]) /\ values(Col(t, categorical_cols[k])) = {}

\* lines 69-72: nulls of the categorical columns replaced by the mode
ProcModeFill ==
    /\ pc = "mode_fill"
    /\ IF mode_fill_raises(df_processed)
       THEN /\ RaiseInMain("KeyError")
            /\ UNCHANGED df_processed
       ELSE /\ df_processed' = mode_fill(df_processed, 1)
            /\ pc' = "knn"
            /\ UNCHANGED exc
    /\ UNCHANGED <<files, dfs, merged_df, df, fs, console>>

Sum(f, S) ==
    LET RECURSIVE go(_)
        go(T) == IF T = {} THEN 0
                 ELSE LET x == CHOOSE y \in T : TRUE IN f[x] + go(T \ {x})
    IN  go(S)

\* sklearn nan_euclidean_distances, squared and in whole degrees: over the
\* coordinates both rows have, scaled by (coordinates / coordinates both
\* have); <<>> when the rows share no coordinate.  With two coordinates the
\* scale is 1 or 2.
nan_dist2(a, b) ==
    LET common == {c \in Range(position_cols) : notna(a[c]) /\ notna(b[c])}
        d(c) == (a[c][1] - b[c][1]) \div Unit
        sq == [c \in common |-> d(c) * d(c)]
    IN  IF common = {} THEN NaN
        ELSE <<Sum(sq, common) * (Cardinality(Range(position_cols)) \div Cardinality(common))>>

\* a is at most as far as b, a NaN distance being farther than any number
nearer_eq(a, b) == isna(b) \/ (notna(a) /\ a[1] <= b[1])

\* an imputer that writes the column mean into every cell of the column
knn_cell_all_mean(X, i, col) ==
    LET donors == {j \in DOMAIN X : notna(X[j][col])}
    IN  {Sum([j \in donors |-> X[j][col][1]], donors) \div Cardinality(donors)}

\* KNNImputer.transform for the cell of row i in column col: the values it
\* can be given.  The donors are the rows with a value in col; a receiver
\* with no distance to any donor gets the column mean; otherwise the
\* n_neighbors nearest donors are averaged with equal weights.  Which of
\* several equally distant donors np.argpartition keeps is not specified,
\* so every choice is an outcome.
knn_cell(X, i, col) ==
    IF notna(X[i][col]) THEN {X[i][col][1]}
    ELSE LET donors == {j \in DOMAIN X : notna(X[j][col])}
             dist(j) == nan_dist2(X[i], X[j])
             val == [j \in donors |-> X[j][col][1]]
             k == IF Cardinality(donors) < n_neighbors
                  THEN Cardinality(donors) ELSE n_neighbors
             picks == {S \in SUBSET donors :
                          /\ Cardinality(S) = k
                          /\ \A p \in S : \A q \in donors \ S : nearer_eq(dist(p), dist(q))}
             used(S) == {j \in S : notna(dist(j))}
         IN  IF \A j \in donors : isna(dist(j))
             THEN {Sum(val, donors) \div Cardinality(donors)}
             ELSE {Sum(val, used(S)) \div Cardinality(used(S)) : S \in picks}

\* the tables KNNImputer(n_neighbors=5).fit_transform can return for X
RECURSIVE knn_rows(_, _)
knn_rows(X, i) ==
    IF i > Len(X) THEN {<<>>}
    ELSE {<<[Latitude |-> <<la>>, Longitude |-> <<lo>>]>> \o rest :
             la \in knn_cell(X, i, "Latitude"),
             lo \in knn_cell(X, i, "Longitude"),
             rest \in knn_rows(X, i + 1)}

\* line 76: both columns exist and some coordinate is null
needs_knn(t) ==
    /\ \A c \in Range(position_cols) : c \in t.cols
    /\ \E c \in Range(position_cols) : any_isna(t, c)

\* the imputer drops a column that has no value at all, and the two-column
\* assignment of line 78 then raises ValueError
knn_raises(t) ==
    \E c \in Range(position_cols) : \A i \in DOMAIN t.rows : isna(t.rows[i][c])

\* lines 75-78: KNN imputation of Latitude and Longitude
ProcKnn ==
    /\ pc = "knn"
    /\ IF ~needs_knn(df_processed)
       THEN /\ pc' = "distance"
            /\ UNCHANGED <<df_processed, exc>>
       ELSE IF knn_raises(df_processed)
       THEN /\ RaiseInMain("ValueError")
            /\ UNCHANGED df_processed
       ELSE LET t == df_processed
                X == [i \in DOMAIN t.rows |->
                         [c \in Range(position_cols) |-> t.rows[i][c]]]
            IN  /\ \E out \in knn_rows(X, 1) :
                      df_processed' =
                          SetCol(SetCol(t, "Latitude", Col([rows |-> out], "Latitude")),
                                 "Longitude", Col([rows |-> out], "Longitude"))
                /\ pc' = "distance"
                /\ UNCHANGED exc
    /\ UNCHANGED <<files, dfs, merged_df, df, fs, console>>

\* lines 82-86: the distance to the colony, null where a coordinate is null.
\* The geodesic length itself is not computed: the cell holds the point it
\* is measured from.
ProcDistance ==
    /\ pc = "distance"
    /\ LET t == df_processed
           km(i) == IF notna(t.rows[i]["Latitude"]) /\ notna(t.rows[i]["Longitude"])
                    THEN <<[geodesic_from |-> <<t.rows[i]["Latitude"][1],
                                                t.rows[i]["Longitude"][1]>>]>>
                    ELSE NaN
       IN  IF t.rows # <<>> /\ \E c \in Range(position_cols) : c \notin t.cols
           THEN /\ RaiseInMain("KeyError")
                /\ UNCHANGED df_processed
           ELSE IF t.rows = <<>>
           \* apply(axis=1) of a table without rows returns a table, which
           \* cannot be assigned to one column
           THEN /\ RaiseInMain("ValueError")
                /\ UNCHANGED df_processed
           ELSE /\ df_processed' = SetCol(t, "distance_to_colony_km", [i \in DOMAIN t.rows |-> km(i)])
                /\ pc' = "time_features"
                /\ UNCHANGED exc
    /\ UNCHANGED <<files, dfs, merged_df, df, fs, console>>

\* lines 94-99
season_mapping ==
    [m \in 1 .. 12 |->
        IF m \in {12, 1, 2} THEN "Sommer"
        ELSE IF m \in {3, 4, 5} THEN "Herbst"
        ELSE IF m \in {6, 7, 8} THEN "Winter"
        ELSE "Fruehling"]

\* lines 89-100: hour_of_day, month and season, where Timestamp exists
ProcTimeFeatures ==
    /\ pc = "time_features"
    /\ LET t == df_processed
           ts(i) == t.rows[i]["Timestamp"]
           t1 == SetCol(t, "hour_of_day",
                        [i \in DOMAIN t.rows |->
                            IF isna(ts(i)) THEN NaN ELSE <<ts(i)[1].hour>>])
           t2 == SetCol(t1, "month",
                        [i \in DOMAIN t.rows |->
                            IF isna(ts(i)) THEN NaN ELSE <<ts(i)[1].month>>])
           t3 == SetCol(t2, "season",
                        [i \in DOMAIN t.rows |->
                            IF isna(t2.rows[i]["month"]) THEN NaN
                            ELSE <<season_mapping[t2.rows[i]["month"][1]]>>])
       IN  df_processed' = IF "Timestamp" \in t.cols THEN t3 ELSE t
    /\ pc' = "get_dummies"
    /\ UNCHANGED <<files, dfs, merged_df, df, fs, console, exc>>

\* the name get_dummies gives the indicator of value v of column col
dummy_name(col, v) == col \o "_" \o v

\* the name of the indicator of a null (dummy_na=True)
dummy_nan(col) == col \o "_nan"

\* an encoding that drops the indicator of the first value (drop_first=True)
dummy_names_drop_first(col, vals) ==
    {dummy_name(col, v) : v \in {w \in vals : \E u \in vals : sort_key(u) < sort_key(w)}}
        \cup {dummy_nan(col)}

\* the indicator columns of a column with the values vals
dummy_names(col, vals) == {dummy_name(col, v) : v \in vals} \cup {dummy_nan(col)}

\* pd.get_dummies for one column: an indicator per value found in it and
\* one for null; the column itself is dropped
dummies_of(t, col) ==
    LET vals == values(Col(t, col))
        new == dummy_names(col, vals)
        keep == t.cols \ {col}
        cell(i, c) == IF c = dummy_nan(col) THEN <<isna(t.rows[i][col])>>
                      ELSE <<\E v \in vals : c = dummy_name(col, v) /\ t.rows[i][col] = <<v>> >>
    IN  [cols |-> keep \cup new,
         rows |-> [i \in DOMAIN t.rows |->
                      [c \in keep \cup new |->
                          IF c \in new THEN cell(i, c) ELSE t.rows[i][c]]]]

RECURSIVE get_dummies(_, _)
get_dummies(t, k) ==
    IF k > Len(categorical_cols) THEN t
    ELSE get_dummies(dummies_of(t, categorical_cols[k]), k + 1)

\* line 104: one-hot encoding of categorical_cols; a listed column the table
\* does not have is a KeyError
ProcGetDummies ==
    /\ pc = "get_dummies"
    /\ IF \E c \in Range(categorical_cols) : c \notin df_processed.cols
       THEN /\ RaiseInMain("KeyError")
            /\ UNCHANGED df_processed
       ELSE /\ df_processed' = get_dummies(df_processed, 1)
            /\ pc' = "normalize"
            /\ UNCHANGED exc
    /\ UNCHANGED <<files, dfs, merged_df, df, fs, console>>

\* lines 107-116: distance_to_colony_km standardised (nulls as 0 first), the
\* shape reported, the table returned to main (line 142).  The standardised
\* number is not computed: the cell holds what was standardised.
ProcNormalize ==
    /\ pc = "normalize"
    /\ LET t == df_processed
           z(i) == <<[scaled |-> IF isna(t.rows[i]["distance_to_colony_km"]) THEN <<0>>
                                 ELSE t.rows[i]["distance_to_colony_km"]]>>
       IN  df_processed' = IF "distance_to_colony_km" \in t.cols
                           THEN SetCol(t, "distance_to_colony_km", [i \in DOMAIN t.rows |-> z(i)])
                           ELSE t
    /\ console' = Append(console, "Daten verarbeitet")
    /\ pc' = "save"
    /\ UNCHANGED <<files, dfs, merged_df, df, fs, exc>>

----------------------------------------------------------------------------
(* The inputs of the tracking pipeline and its runs *)

Tables(RowSet, most) ==
    UNION {{TableOf(rows) : rows \in [1 .. n -> RowSet]} : n \in 1 .. most}

\* records that differ in their categorical values
CatRow ==
    {With(GoodRow, [Sex |-> s, ArgosQuality |-> q]) :
        s \in {NaN, <<"female">>, <<"male">>}, q \in {NaN, <<"A">>, <<"B">>}}

\* records that differ in their date and time texts
TimeRow ==
    {With(GoodRow, [DateGMT |-> d, TimeGMT |-> t]) :
        d \in {<<"15/01/2024">>, <<"31/02/2024">>},
        t \in {NaN, <<"12:30:45">>, <<"12:30">>}}
    \cup {With(GoodRow, [TimeGMT |-> t]) : t \in {<<"25:00:00">>, <<"ab:cd:ef">>}}

\* records that differ in their coordinates
GeoRow ==
    {With(GoodRow, [Latitude |-> la, Longitude |-> lo]) :
        la \in {<<"n/a">>, <<"-62">>, <<"-60">>},
        lo \in {NaN, <<"-58">>, <<"-56">>}}

\* well-formed records
PlainRow == {With(GoodRow, [DateGMT |-> d]) : d \in {<<"15/01/2024">>, <<"20/07/2024">>}}

At(la, lo) == With(GoodRow, [Latitude |-> <<la>>, Longitude |-> <<lo>>])

\* as many complete records as the imputer has neighbours
Colony ==
    <<At("-62", "-58"), At("-61", "-57"), At("-60", "-56"), At("-64", "-60"),
      At("-62", "-56")>>

\* records that differ in their sex
SexRow == {With(GoodRow, [Sex |-> s]) : s \in {NaN, <<"female">>, <<"male">>}}

\* column sets a file of a two-file input can lack
Gaps == {{}, {"Sex"}, {"TimeGMT"}}

InitTrack ==
    /\ pc = "start"
    /\ \/ files = <<>>
       \/ files = <<TableOf(<<>>)>>
       \/ \E t \in Tables(CatRow, MaxRows) : files = <<t>>
       \/ \E t \in Tables(TimeRow, MaxRows) : files = <<t>>
       \/ \E t \in Tables(GeoRow, MaxGeoRows) : files \in {<<t>>, <<TableOf(Colony), t>>}
       \/ \E t \in Tables(PlainRow, MaxRows) : \E absent \in SUBSET AllCols :
              Cardinality(absent) \in {1, 2} /\ files = <<Without(t, absent)>>
       \/ \E r1, r2 \in SexRow : \E a1, a2 \in Gaps :
              files = <<Without(TableOf(<<r1>>), a1), Without(TableOf(<<r2>>), a2)>>
    /\ dfs = <<>>
    /\ merged_df = <<>>
    /\ df = EmptyTable
    /\ df_processed = EmptyTable
    /\ fs = {}
    /\ console = <<>>
    /\ exc = <<>>

Next ==
    \/ MainStart
    \/ LoadGlob
    \/ LoadReadCsv
    \/ LoadConcat
    \/ ProcParseDate
    \/ ProcTimestamp
    \/ ProcToNumeric
    \/ ProcModeFill
    \/ ProcKnn
    \/ ProcDistance
    \/ ProcTimeFeatures
    \/ ProcGetDummies
    \/ ProcNormalize
    \/ SaveMakeDirs
    \/ SaveParquet
    \/ SaveCsv
    \/ MainSuccess
    \/ MainExcept

Spec == InitTrack /\ [][Next]_vars

----------------------------------------------------------------------------
(* Claims about the trip pipeline *)

KeepsRow(r) ==
    /\ r.pickup_datetime # NaN
    /\ r.dropoff_datetime # NaN
    /\ r.fare_amount # NaN /\ r.fare_amount[1] > 0
    /\ r.trip_distance # NaN /\ r.trip_distance[1] > 0

\* C1: once clean_data has run, merged_df holds exactly the rows of the merged
\* table that have both timestamps non-null, fare_amount > 0 and
\* trip_distance > 0, each once and in their original relative order.
C1_CleanDataExact ==
    pc \in {"write", "done"} =>
        LET before == concat_rows(dfs)
        IN  /\ \A r \in Range(merged_df) : r \in Range(before) /\ KeepsRow(r.row)
            /\ \A r \in Range(before) : KeepsRow(r.row) => r \in Range(merged_df)
            /\ \A i, j \in DOMAIN merged_df :
                   i < j => merged_df[i].index < merged_df[j].index

\* a run in which clean_data both removed a row and kept rows around it
C1_Witness ==
    /\ pc = "write"
    /\ Len(merged_df) >= 1
    /\ Len(merged_df) < Len(concat_rows(dfs))
    /\ \E r \in Range(concat_rows(dfs)) : r.row.fare_amount = <<0>>

\* C2: when the glob matches no file, the run ends with a not-found error and
\* has touched nothing in the file system (a failing os call, which raises
\* OSError, aside).
C2_NoFilesNotFound ==
    files = <<>> =>
        /\ fs = {}
        /\ pc \notin {"clean", "write", "done"}
        /\ pc = "raised" => exc \in {<<"FileNotFoundError">>, <<"OSError">>}

----------------------------------------------------------------------------
(* Claims about the tracking pipeline *)

\* process_data has returned its table to main
Returned == pc \in {"save", "to_parquet", "to_csv", "saved", "done"}

CatCols == Range(categorical_cols)

\* C3: the mode-fill step leaves no null in a categorical column that the
\* table has and that held at least one value before the step, and changes no
\* value that was there before the step.
C3_ModeFillFillsOnlyNulls ==
    [][(pc = "mode_fill" /\ pc' = "knn") =>
         \A col \in CatCols \cap df_processed.cols :
            values(Col(df_processed, col)) # {} =>
               \A i \in DOMAIN df_processed.rows :
                  /\ notna(df_processed'.rows[i][col])
                  /\ notna(df_processed.rows[i][col]) =>
                        df_processed'.rows[i][col] = df_processed.rows[i][col]]_vars

\* the step has filled a null of a column in which two different values stay
C3_Witness ==
    /\ pc = "knn"
    /\ "Sex" \in df.cols
    /\ \E i, j, k \in DOMAIN df.rows :
          /\ isna(df.rows[i]["Sex"])
          /\ notna(df_processed.rows[i]["Sex"])
          /\ df_processed.rows[j]["Sex"] # df_processed.rows[k]["Sex"]

\* the indicator columns of the returned table that come from column col
IndicatorsOf(col) ==
    {c \in df_processed.cols :
        c = col \o "_nan" \/ \E v \in Range(SortOrder) : c = col \o "_" \o v}

\* C4: in the table process_data returns, each row has exactly one true
\* indicator among the indicator columns of each encoded categorical column
\* (the missing-value indicator included), and the categorical column itself
\* is gone.
C4_OneHotExactlyOne ==
    Returned =>
        \A col \in CatCols :
            /\ col \notin df_processed.cols
            /\ \A i \in DOMAIN df_processed.rows :
                  Cardinality({c \in IndicatorsOf(col) :
                                  df_processed.rows[i][c] = <<TRUE>>}) = 1

\* a returned table with rows of two different sexes, one of them imputed
C4_Witness ==
    /\ pc = "save"
    /\ {"Sex_female", "Sex_male", "Sex_nan"} \subseteq df_processed.cols
    /\ "Sex" \in df.cols
    /\ \E i \in DOMAIN df.rows : isna(df.rows[i]["Sex"])

\* the most frequent values of a column of the loaded table
MostFrequent(col) ==
    LET c == Col(df, col)
        n(v) == Cardinality({i \in DOMAIN c : c[i] = <<v>>})
    IN  {v \in Range(SortOrder) : n(v) > 0 /\ \A w \in Range(SortOrder) : n(w) <= n(v)}

\* C5 as stated: a row whose categorical value was null before imputation
\* has the missing-value indicator of that column true in the output.
C5_MissingIndicatorMarksImputed ==
    Returned =>
        \A col \in CatCols : \A i \in DOMAIN df.rows :
            isna(df.rows[i][col]) => df_processed.rows[i][col \o "_nan"] = <<TRUE>>

\* C5 as amended: a row whose categorical value was null before imputation
\* has, in the output, the missing-value indicator of that column false and
\* the indicator of one of the column's most frequent values true.
C5_ImputedRowsCarryModeIndicator ==
    Returned =>
        \A col \in CatCols : \A i \in DOMAIN df.rows :
            isna(df.rows[i][col]) =>
                /\ df_processed.rows[i][col \o "_nan"] = <<FALSE>>
                /\ \E v \in MostFrequent(col) :
                      df_processed.rows[i][col \o "_" \o v] = <<TRUE>>

\* a returned table of which one row had no ArgosQuality when loaded
C5_Witness ==
    /\ pc = "save"
    /\ \E i \in DOMAIN df.rows : isna(df.rows[i]["ArgosQuality"])

\* C6: the KNN step changes no coordinate that was there before it: a row
\* with both coordinates keeps both, a row with one keeps that one.
C6_KnnKeepsPresentCoordinates ==
    [][pc = "knn" =>
         \A c \in Range(position_cols) \cap df_processed.cols :
            \A i \in DOMAIN df_processed.rows :
               notna(df_processed.rows[i][c]) =>
                  df_processed'.rows[i][c] = df_processed.rows[i][c]]_vars

\* the step has imputed the latitude of a row that has only its longitude,
\* in a table with more complete rows than the imputer takes neighbours
C6_Witness ==
    /\ pc = "distance"
    /\ {"Latitude", "Longitude"} \subseteq df.cols
    /\ Cardinality({j \in DOMAIN df.rows :
                       /\ notna(to_numeric(df.rows[j]["Latitude"]))
                       /\ notna(df.rows[j]["Longitude"])}) > n_neighbors
    /\ \E i, j \in DOMAIN df.rows :
          /\ isna(to_numeric(df.rows[i]["Latitude"]))
          /\ notna(df.rows[i]["Longitude"])
          /\ notna(df_processed.rows[i]["Latitude"])
          /\ notna(df.rows[j]["Latitude"]) /\ notna(df.rows[j]["Longitude"])

\* time texts of one to three numeric parts that name a time of day
ShortOrFullTimes == {<<"12:30:45">>, <<"12:30">>}

\* C7: the timestamp step does not raise on time texts with absent
\* sub-components, in one row or in all rows: it composes the Timestamp with
\* the absent components as zero, and a row whose date did not parse gets a
\* null Timestamp.
C7_TimestampNeverRaises ==
    [][(/\ pc = "timestamp"
        /\ "TimeGMT" \in df_processed.cols
        /\ df_processed.rows # <<>>
        /\ \A i \in DOMAIN df_processed.rows :
              df_processed.rows[i]["TimeGMT"] \in ShortOrFullTimes)
       => /\ pc' = "to_numeric"
          /\ \A i \in DOMAIN df_processed.rows :
                LET ts == df_processed'.rows[i]["Timestamp"]
                IN  IF isna(df_processed.rows[i]["DateGMT"]) THEN isna(ts)
                    ELSE /\ notna(ts)
                         /\ ts[1].hour = 12 /\ ts[1].minute = 30
                         /\ ts[1].second =
                               IF df_processed.rows[i]["TimeGMT"] = <<"12:30">>
                               THEN 0 ELSE 45]_vars

\* the loaded table lacks non-date columns and is well-formed in the rest
SchemaGap ==
    /\ pc \notin {"start", "glob", "read"}
    /\ "DateGMT" \in df.cols
    /\ df.cols # AllCols
    /\ df.rows # <<>>
    /\ \A i \in DOMAIN df.rows : \A c \in df.cols :
          df.rows[i][c] \in {GoodRow[c], <<"20/07/2024">>}

\* C8: on a table that lacks an expected non-date column process_data does
\* not raise, and it returns a table with as many rows as it was given.
C8_AbsentColumnIsSkipped ==
    SchemaGap =>
        /\ pc = "except" => exc = <<"OSError">>
        /\ Returned => Len(df_processed.rows) = Len(df.rows)

\* the messages main and its stages print, in program order
Messages ==
    <<"Starte Datenverarbeitung", "Daten geladen", "Daten verarbeitet",
      "Daten als Parquet gespeichert", "Daten als CSV gespeichert",
      "Datenverarbeitung erfolgreich abgeschlossen">>

ErrorMessage == "Fehler bei der Datenverarbeitung"

IsPrefix(a, b) == Len(a) <= Len(b) /\ SubSeq(b, 1, Len(a)) = a

C9_State ==
    LET failed == console # <<>> /\ console[Len(console)] = ErrorMessage
        progress == IF failed THEN SubSeq(console, 1, Len(console) - 1) ELSE console
    IN  /\ IsPrefix(progress, Messages)
        /\ pc = "raised" => failed /\ exc # <<>> /\ progress # Messages
        /\ failed => pc = "raised"
        /\ progress = Messages <=> pc = "done"
        /\ pc = "done" => exc = <<>> /\ {parquet_path, csv_path} \subseteq fs
        /\ fs # {} => Len(progress) >= 3
        /\ parquet_path \in fs => Len(progress) >= 4
        /\ df_processed # EmptyTable => Len(progress) >= 2

C9_Step ==
    /\ pc \in {"except", "raised"} => UNCHANGED <<dfs, df, df_processed, fs, exc>>
    /\ pc = "except" => pc' = "raised"

\* C9: main runs load_data, process_data and save_data in this order; once a
\* stage raises nothing of a later stage happens, the error is printed and
\* then re-raised, and the success message is printed only after all three
\* stages have completed.
C9_MainFailFast == [](C9_State) /\ [][C9_Step]_vars

\* process_data raised, the handler printed the error and re-raised it
C9_Witness ==
    /\ pc = "raised"
    /\ exc = <<"KeyError">>
    /\ console = <<"Starte Datenverarbeitung", "Daten geladen", ErrorMessage>>

\* the columns in which the mode-fill step has to break a tie
Tied(t, col) == col \in t.cols /\ any_isna(t, col) /\ Cardinality(modes(Col(t, col))) > 1

\* C10 as stated: when several values tie for the highest frequency, the
\* nulls of the column are replaced by the tied value that comes first in
\* the row order.
C10_TieGoesToFirstEncountered ==
    [][(pc = "mode_fill" /\ pc' = "knn") =>
         \A col \in CatCols : Tied(df_processed, col) =>
            \A i \in DOMAIN df_processed.rows :
               isna(df_processed.rows[i][col]) =>
                  df_processed'.rows[i][col] =
                     <<mode0_first_seen(Col(df_processed, col))>>]_vars

\* C10 as amended: when several values tie for the highest frequency, the
\* nulls of the column are replaced by the tied value that sorts first.
C10_TieGoesToSmallest ==
    [][(pc = "mode_fill" /\ pc' = "knn") =>
         \A col \in CatCols : Tied(df_processed, col) =>
            \A i \in DOMAIN df_processed.rows :
               isna(df_processed.rows[i][col]) =>
                  \E v \in modes(Col(df_processed, col)) :
                     /\ df_processed'.rows[i][col] = <<v>>
                     /\ \A w \in modes(Col(df_processed, col)) :
                           sort_key(v) <= sort_key(w)]_vars

\* a null was filled in a column whose first row holds the tied value that
\* sorts last
C10_Witness ==
    /\ pc = "knn"
    /\ "Sex" \in df.cols
    /\ Len(df.rows) >= 3
    /\ df.rows[1]["Sex"] = <<"male">>
    /\ df.rows[2]["Sex"] = <<"female">>
    /\ isna(df.rows[3]["Sex"])
    /\ notna(df_processed.rows[3]["Sex"])
    /\ Cardinality(modes(Col(df, "Sex"))) > 1

====
